---------------------------- MODULE Spec2Model ----------------------------
(***************************************************************************)
(* EEG Mood Classifier (src/EEG.py): the classifier predict_mood, the two  *)
(* entry paths of the window EEGApp (typed text, CSV load) and the         *)
(* animation driven by the Predict button.                                 *)
(*                                                                         *)
(* Numbers.  The program computes in IEEE-754 binary64: float(x) rounds a  *)
(* decimal token to the nearest double, np.mean adds doubles and divides,  *)
(* str() prints a double.  The model keeps that arithmetic (binary         *)
(* mantissa, round to nearest, ties to even, unbounded exponent) with the  *)
(* mantissa width scaled down from 53 bits to MantBits bits, so that the   *)
(* rounding of an addition is a case that small numbers reach.             *)
(* A float is <<m, e>>, the value m * 2^e, normalised so that              *)
(* m = 0 /\ e = 0 or 2^(MantBits-1) <= |m| < 2^MantBits.                   *)
(*                                                                         *)
(* Text.  A string is a sequence of one-character strings, so that         *)
(* split(','), float() and str() are computed on characters.               *)
(***************************************************************************)
EXTENDS Integers, Sequences, FiniteSets, TLC

\* Mantissa width of the model's floating point (binary64 has 53).
MantBits == 4
\* Longest reading sequence drawn as an input of the classifier.
MaxLen == 4

--------------------------------------------------------------------------
(* Floating point *)

Abs(x) == IF x < 0 THEN -x ELSE x

Sgn(x) == IF x < 0 THEN -1 ELSE 1

Min(a, b) == IF a <= b THEN a ELSE b

Zero == <<0, 0>>

\* <<n, d, e>> with n/d * 2^e unchanged and 2^(MantBits-1) <= n/d < 2^MantBits.
RECURSIVE Normalize(_, _, _)
Normalize(n, d, e) ==
    IF n < (2 ^ (MantBits - 1)) * d THEN Normalize(2 * n, d, e - 1)
    ELSE IF n >= (2 ^ MantBits) * d THEN Normalize(n, 2 * d, e + 1)
    ELSE <<n, d, e>>

\* n/d (n >= 0, d > 0) rounded to an integer, ties to even.
RoundHalfEven(n, d) ==
    LET q == n \div d
        r == n - q * d
    IN  IF 2 * r > d \/ (2 * r = d /\ q % 2 = 1) THEN q + 1 ELSE q

\* The float nearest to num/den * 2^e (den > 0).
fl(num, den, e) ==
    IF num = 0 THEN Zero
    ELSE LET t == Normalize(Abs(num), den, e)
             q == RoundHalfEven(t[1], t[2])
         IN  IF q = 2 ^ MantBits
             THEN <<Sgn(num) * (2 ^ (MantBits - 1)), t[3] + 1>>
             ELSE <<Sgn(num) * q, t[3]>>

\* a + b of two floats, rounded once.
FAdd(a, b) ==
    LET e == Min(a[2], b[2])
    IN  fl(a[1] * (2 ^ (a[2] - e)) + b[1] * (2 ^ (b[2] - e)), 1, e)

\* a / n of a float by a count n >= 1 (a count is exact in binary64).
FDivCount(a, n) == fl(a[1], n, a[2])

\* a > k and a < k for a float a and an integer k.
FGreater(a, k) ==
    IF a[2] >= 0 THEN a[1] * (2 ^ a[2]) > k ELSE a[1] > k * (2 ^ (-a[2]))

FLess(a, k) ==
    IF a[2] >= 0 THEN a[1] * (2 ^ a[2]) < k ELSE a[1] < k * (2 ^ (-a[2]))

\* The float of an integer literal.
FInt(k) == fl(k, 1, 0)

--------------------------------------------------------------------------
(* np.mean of a one-dimensional float64 array: numpy's add.reduce over a   *)
(* contiguous array (fewer than 8 elements: one accumulator, left to       *)
(* right; 8 to 128 elements: eight accumulators over blocks of 8, combined *)
(* pairwise, then the tail left to right), then one division by the count. *)

RECURSIVE SumFrom(_, _, _)
SumFrom(a, i, acc) ==
    IF i > Len(a) THEN acc ELSE SumFrom(a, i + 1, FAdd(acc, a[i]))

\* Accumulator j of the unrolled loop: a[j], a[j+8], ... below the limit.
RECURSIVE Lane(_, _, _, _)
Lane(a, i, limit, acc) ==
    IF i > limit THEN acc ELSE Lane(a, i + 8, limit, FAdd(acc, a[i]))

np_sum(a) ==
    IF Len(a) < 8 THEN SumFrom(a, 1, Zero)
    ELSE LET limit == Len(a) - (Len(a) % 8)
             r == [j \in 1..8 |-> Lane(a, j + 8, limit, a[j])]
             res == FAdd(FAdd(FAdd(r[1], r[2]), FAdd(r[3], r[4])),
                         FAdd(FAdd(r[5], r[6]), FAdd(r[7], r[8])))
         IN  SumFrom(a, limit + 1, res)

np_mean(a) == FDivCount(np_sum(a), Len(a))

--------------------------------------------------------------------------
(* predict_mood *)

Happy == <<"Happy", "Brain activity shows high energy, suggesting a happy mood.">>

Sad == <<"Sad", "Low energy detected, may indicate sadness.">>

Neutral == <<"Neutral", "Balanced activity, likely a neutral mood.">>

predict_mood_ge(eeg_values) ==
    LET avg == np_mean(eeg_values)
    IN  IF ~FLess(avg, 2) THEN Happy
        ELSE IF FLess(avg, -2) THEN Sad
        ELSE Neutral

predict_mood(eeg_values) ==
    LET avg == np_mean(eeg_values)
    IN  IF FGreater(avg, 2) THEN Happy
        ELSE IF FLess(avg, -2) THEN Sad
        ELSE Neutral

--------------------------------------------------------------------------
(* Text: str.split(','), float(token), str(value), ', '.join(...) *)

Digits == <<"0", "1", "2", "3", "4", "5", "6", "7", "8", "9">>

IsDigit(c) == \E d \in 1..10 : Digits[d] = c

DigitVal(c) == (CHOOSE d \in 1..10 : Digits[d] = c) - 1

\* The decimal digits of n >= 0.
RECURSIVE DigitsOf(_)
DigitsOf(n) ==
    IF n < 10 THEN <<Digits[n + 1]>>
    ELSE Append(DigitsOf(n \div 10), Digits[(n % 10) + 1])

\* The number a sequence of digits writes (0 for none).
RECURSIVE DigitsValue(_)
DigitsValue(ds) ==
    IF ds = <<>> THEN 0
    ELSE 10 * DigitsValue(SubSeq(ds, 1, Len(ds) - 1)) + DigitVal(ds[Len(ds)])

\* The pieces of s[lo..hi] between its commas, at least one piece.  The
\* range is cut at the comma nearest its middle, which keeps the recursion
\* shallow on a long text; the pieces are those of a left-to-right scan.
RECURSIVE SplitRange(_, _, _)
SplitRange(s, lo, hi) ==
    LET mid == (lo + hi) \div 2
        right == {j \in mid..hi : s[j] = ","}
        left == {j \in lo..(mid - 1) : s[j] = ","}
    IN  IF lo > hi THEN <<<<>>>>
        ELSE IF right # {}
        THEN LET c == CHOOSE j \in right : \A d \in right : j <= d
             IN  SplitRange(s, lo, c - 1) \o SplitRange(s, c + 1, hi)
        ELSE IF left # {}
        THEN LET c == CHOOSE j \in left : \A d \in left : j >= d
             IN  SplitRange(s, lo, c - 1) \o SplitRange(s, c + 1, hi)
        ELSE <<SubSeq(s, lo, hi)>>

\* split that drops the empty pieces.
split_skip_empty(s) == SelectSeq(SplitRange(s, 1, Len(s)), LAMBDA t : t # <<>>)

\* text.split(',')
split(s) == SplitRange(s, 1, Len(s))

\* Leading and trailing whitespace removed, as float() does first.
strip(s) ==
    LET ink == {i \in 1..Len(s) : s[i] # " "}
    IN  IF ink = {} THEN <<>>
        ELSE SubSeq(s, CHOOSE i \in ink : \A j \in ink : i <= j,
                       CHOOSE i \in ink : \A j \in ink : i >= j)

\* The float a stripped token writes, or a ValueError.  Grammar over the
\* model's characters: optional sign, digits with at most one '.', at
\* least one digit.  The result is [err, val]; val is Zero on an error.
float_of(t) ==
    LET signed == t # <<>> /\ t[1] \in {"-", "+"}
        body == IF signed THEN Tail(t) ELSE t
        dots == {i \in 1..Len(body) : body[i] = "."}
        whole == IF dots = {} THEN body
                 ELSE SubSeq(body, 1, (CHOOSE i \in dots : TRUE) - 1)
        frac == IF dots = {} THEN <<>>
                ELSE SubSeq(body, (CHOOSE i \in dots : TRUE) + 1, Len(body))
        wellFormed ==
            /\ Cardinality(dots) <= 1
            /\ \A i \in 1..Len(whole) : IsDigit(whole[i])
            /\ \A i \in 1..Len(frac) : IsDigit(frac[i])
            /\ Len(whole) + Len(frac) >= 1
    IN  IF ~wellFormed THEN [err |-> TRUE, val |-> Zero]
        ELSE [err |-> FALSE,
              val |-> fl((IF signed /\ t[1] = "-" THEN -1 ELSE 1)
                             * DigitsValue(whole \o frac),
                         10 ^ Len(frac), 0)]

float_nostrip(token) == float_of(token)

\* float(token): leading and trailing whitespace is dropped, then the
\* nearest float to the decimal is returned, or a ValueError raised.
float(token) == float_of(strip(token))

\* The parse with the tokens that raise left out.
parse_floats_skip(text) ==
    LET tokens == split(text)
        good == SelectSeq(tokens, LAMBDA t : ~float(t).err)
    IN  [err |-> FALSE, vals |-> [k \in 1..Len(good) |-> float(good[k]).val]]

\* np.array([float(x) for x in text.split(',')]): [err, vals]; vals is
\* empty when a token raised.
parse_floats(text) ==
    LET tokens == split(text)
        parsed == [k \in 1..Len(tokens) |-> float(tokens[k])]
    IN  IF \E k \in 1..Len(tokens) : parsed[k].err
        THEN [err |-> TRUE, vals |-> <<>>]
        ELSE [err |-> FALSE, vals |-> [k \in 1..Len(tokens) |-> parsed[k].val]]

\* str() of an int64 cell.
str_int(k) == IF k < 0 THEN <<"-">> \o DigitsOf(-k) ELSE DigitsOf(k)

\* m * 2^e with every factor 2 moved from m into e while e < 0.
RECURSIVE Reduce(_, _)
Reduce(m, e) == IF e < 0 /\ m % 2 = 0 THEN Reduce(m \div 2, e + 1) ELSE <<m, e>>

\* ds padded with zeros on the left to n digits.
RECURSIVE ZeroPad(_, _)
ZeroPad(ds, n) == IF Len(ds) >= n THEN ds ELSE ZeroPad(<<"0">> \o ds, n)

\* str() of a float64 cell: the shortest decimal that reads back as the
\* same float.  For the cells of the model (|x| below 10^16, dyadic with a
\* short expansion) that is the exact decimal expansion in positional
\* notation, with '.0' after a whole number.
str_float(f) ==
    LET r == Reduce(f[1], f[2])
        m == Abs(r[1])
        k == -r[2]
        sign == IF r[1] < 0 THEN <<"-">> ELSE <<>>
    IN  IF k <= 0 THEN sign \o DigitsOf(m * (2 ^ r[2])) \o <<".", "0">>
        ELSE LET n == m * (5 ^ k)
             IN  sign \o DigitsOf(n \div (10 ^ k)) \o <<".">>
                      \o ZeroPad(DigitsOf(n % (10 ^ k)), k)

\* sep.join(parts[lo..hi]), lo <= hi, by halves.
RECURSIVE JoinRange(_, _, _, _)
JoinRange(sep, parts, lo, hi) ==
    IF lo = hi THEN parts[lo]
    ELSE LET mid == (lo + hi) \div 2
         IN  JoinRange(sep, parts, lo, mid) \o sep
                 \o JoinRange(sep, parts, mid + 1, hi)

\* sep.join(parts)
join(sep, parts) ==
    IF parts = <<>> THEN <<>> ELSE JoinRange(sep, parts, 1, Len(parts))

--------------------------------------------------------------------------
(* pandas: read_csv gives a DataFrame, a sequence of named columns of one  *)
(* dtype each ("int64" cells are integers, "float64" cells are floats),    *)
(* all of the same length.                                                 *)

\* df.drop("label", axis=1) when "label" in df.columns, else df.
drop_label(df) == SelectSeq(df, LAMBDA col : col.name # "label")

\* Number of rows of a DataFrame with at least one column.
NRows(df) == Len(df[1].cells)

\* df.values.flatten(): one array of the common dtype of the columns
\* (float64 as soon as one column is float64, the int64 cells converted),
\* the cells row by row.
values_flatten(df) ==
    LET ncols == Len(df)
        dtype == IF \A c \in 1..ncols : df[c].dtype = "int64"
                 THEN "int64" ELSE "float64"
        cell(r, c) == IF dtype = "float64" /\ df[c].dtype = "int64"
                      THEN FInt(df[c].cells[r]) ELSE df[c].cells[r]
    IN  [dtype |-> dtype,
         data |-> IF ncols = 0 THEN <<>>
                  ELSE [k \in 1..(NRows(df) * ncols) |->
                           cell(((k - 1) \div ncols) + 1, ((k - 1) % ncols) + 1)]]

\* values[:n]
first(values, n) == SubSeq(values, 1, Min(n, Len(values)))

\* ', '.join(map(str, values))
join_str(arr) ==
    join(<<",", " ">>,
         [k \in 1..Len(arr.data) |->
             IF arr.dtype = "int64" THEN str_int(arr.data[k])
             ELSE str_float(arr.data[k])])

\* The text load_csv_file computes from a DataFrame (lines 124-127).
csv_text_99(df) ==
    LET arr == values_flatten(drop_label(df))
    IN  join_str([dtype |-> arr.dtype, data |-> first(arr.data, 99)])

csv_text(df) ==
    LET arr == values_flatten(drop_label(df))
    IN  join_str([dtype |-> arr.dtype, data |-> first(arr.data, 100)])

--------------------------------------------------------------------------
(* Inputs of the model *)

IntCol(name, cells) == [name |-> name, dtype |-> "int64", cells |-> cells]

FloatCol(name, cells) == [name |-> name, dtype |-> "float64", cells |-> cells]

Readable(df) == [readable |-> TRUE, df |-> df, error |-> ""]

Unreadable(msg) == [readable |-> FALSE, df |-> <<>>, error |-> msg]

\* Rows of the long table: more than 100 cells remain without "label".
LongRows == 51

\* The files the dialog can return, by path.
Files ==
    [ints |-> Readable(<<IntCol("a", <<1, 2>>), IntCol("b", <<3, 4>>)>>),
     labelled |-> Readable(<<FloatCol("x", <<fl(5, 2, 0), FInt(-3)>>),
                             IntCol("label", <<1, 0>>),
                             FloatCol("y", <<fl(1, 2, 0), FInt(4)>>)>>),
     mixed |-> Readable(<<IntCol("label", <<0, 1>>),
                          IntCol("t", <<-3, -4>>),
                          FloatCol("v", <<fl(-3, 2, 0), FInt(-2)>>)>>),
     long |-> Readable(<<IntCol("a", [r \in 1..LongRows |-> (r % 5) - 2]),
                         IntCol("label", [r \in 1..LongRows |-> r % 2]),
                         IntCol("b", [r \in 1..LongRows |-> ((3 * r) % 7) - 3])>>),
     header_only |-> Readable(<<IntCol("a", <<>>), IntCol("b", <<>>)>>),
     only_label |-> Readable(<<IntCol("label", <<1, 0>>)>>),
     bigint |-> Readable(<<IntCol("n", <<1025, 3>>)>>),
     empty |-> Unreadable("No columns to parse from file"),
     ragged |-> Unreadable("Error tokenizing data. C error: Expected 2 fields in line 3, saw 3")]

Paths == DOMAIN Files

\* Texts the user types into the line edit.
TypedTexts ==
    { <<"3", ",", "3", ",", "3">>,
      <<"-", "5", ",", "-", "1", ",", "-", "2">>,
      <<"2", ",", "2", ",", "2">>,
      <<"-", "2", ",", " ", "-", "2">>,
      <<" ", "2", ".", "5", " ">>,
      <<"1", ",", " ", "x">>,
      <<>>,
      <<"1", ",", ",">>,
      <<"7", ",", " ", ",", "7">>,
      <<"1", " ", "2">>,
      <<"1", ".", "2", ".", "3">>,
      <<"2", ",", "-">> }

\* Readings the classifier's input sequences are drawn from.
Readings == {FInt(-4096), FInt(-2), FInt(2), FInt(10), FInt(4096)}

Inputs == UNION {[1..n -> Readings] : n \in 1..MaxLen}

--------------------------------------------------------------------------
(* State *)

VARIABLES
    eeg_input,           \* self.eeg_input: the text of the line edit
    result_label,        \* self.result_label: its text
    network_info_label,  \* self.network_info_label: its text
    figure,              \* self.canvas.figure: what its axes hold
    screen,              \* the figure as self.canvas.draw() last painted it
    stdout,              \* the last line print() wrote
    gif,                 \* whether eeg_network_animation.gif was written
    pc,                  \* "idle" or the position inside on_button_click
    event,               \* the last user action: <<kind, path chosen>>
    eeg_values,          \* the array on_button_click parsed
    returned,            \* what predict_mood returned for eeg_values
    frames,              \* the frames ani.save has drawn and handed to the writer
    base,                \* classifier runs: the sequence first drawn
    returned_base        \* classifier runs: what predict_mood returned for it

vars == <<eeg_input, result_label, network_info_label, figure, screen, stdout,
          gif, pc, event, eeg_values, returned, frames, base, returned_base>>

gui == <<eeg_input, result_label, network_info_label, figure, screen, stdout,
         gif, pc, event, frames>>

NoOutcome == <<"none", "">>

\* plt.figure(): no axes.
EmptyFigure == [subplots |-> FALSE, line |-> <<>>, network |-> "none"]

\* f"Mood: {mood}"
MoodText(mood) ==
    CASE mood = "Happy" -> "Mood: Happy"
      [] mood = "Sad" -> "Mood: Sad"
      [] mood = "Neutral" -> "Mood: Neutral"

\* EEGApp.__init__
Init ==
    /\ eeg_input = <<>>
    /\ result_label = "Mood: "
    /\ network_info_label = "Brain Network Info: "
    /\ figure = EmptyFigure
    /\ screen = EmptyFigure
    /\ stdout = ""
    /\ gif = FALSE
    /\ pc = "idle"
    /\ event = <<"none", "">>
    /\ eeg_values = <<>>
    /\ returned = NoOutcome
    /\ frames = <<>>
    /\ base = <<>>
    /\ returned_base = NoOutcome

--------------------------------------------------------------------------
(* User actions.  The window is single-threaded: a handler runs to its end *)
(* before the next event is taken, so the user acts only when pc = "idle". *)

\* The user edits the line edit.
type_text(t) ==
    /\ pc = "idle"
    /\ eeg_input' = t
    /\ event' = <<"type", "">>
    /\ UNCHANGED <<result_label, network_info_label, figure, screen, stdout,
                   gif, pc, eeg_values, returned, frames, base, returned_base>>

\* lines 128-130 with the text entry cleared as well.
load_failed_clear(error) ==
    /\ result_label' = "Could not read CSV file."
    /\ network_info_label' = error
    /\ eeg_input' = <<>>

\* lines 128-130: read_csv raised e; both labels are set, nothing else.
load_failed(error) ==
    /\ result_label' = "Could not read CSV file."
    /\ network_info_label' = error
    /\ UNCHANGED eeg_input

\* lines 124-127 with the result label reset as well.
load_ok_relabel(df) ==
    /\ eeg_input' = csv_text(df)
    /\ result_label' = "Mood: "
    /\ UNCHANGED network_info_label

\* lines 124-127: the text entry is set from the DataFrame, nothing else.
load_ok(df) ==
    /\ eeg_input' = csv_text(df)
    /\ UNCHANGED <<result_label, network_info_label>>

\* load_csv_file: file_path is "" when the dialog is cancelled.
load_csv_file(file_path) ==
    /\ pc = "idle"
    /\ event' = <<"load", file_path>>
    /\ IF file_path = ""
       THEN UNCHANGED <<eeg_input, result_label, network_info_label>>
       ELSE IF Files[file_path].readable
       THEN load_ok(Files[file_path].df)
       ELSE load_failed(Files[file_path].error)
    /\ UNCHANGED <<figure, screen, stdout, gif, pc, eeg_values, returned,
                   frames, base, returned_base>>

\* on_button_click, line 134: the text is parsed; a ValueError goes to the
\* bare except (lines 139-141) and the handler ends.  The statements that
\* follow in the try block work on an array of at least one float and
\* have no raise of their own; the export's exception is caught inside
\* animate.
on_button_click ==
    /\ pc = "idle"
    /\ event' = <<"predict", "">>
    /\ LET parsed == parse_floats(eeg_input)
       IN  IF parsed.err
           THEN /\ result_label' = "Invalid EEG input."
                /\ network_info_label' = "Animation failed."
                /\ UNCHANGED <<pc, eeg_values>>
           ELSE /\ eeg_values' = parsed.vals
                /\ pc' = "predict_mood"
                /\ UNCHANGED <<result_label, network_info_label>>
    /\ UNCHANGED <<eeg_input, figure, screen, stdout, gif, returned, frames,
                   base, returned_base>>

\* line 135: mood, info = predict_mood(eeg_values)
call_predict_mood ==
    /\ pc = "predict_mood"
    /\ returned' = predict_mood(eeg_values)
    /\ pc' = "setText"
    /\ UNCHANGED <<eeg_input, result_label, network_info_label, figure, screen,
                   stdout, gif, event, eeg_values, frames, base, returned_base>>

\* lines 136-137: both labels are set from the outcome.
set_labels ==
    /\ pc = "setText"
    /\ result_label' = MoodText(returned[1])
    /\ network_info_label' = returned[2]
    /\ pc' = "clf"
    /\ UNCHANGED <<eeg_input, figure, screen, stdout, gif, event, eeg_values,
                   returned, frames, base, returned_base>>

\* create_animation, line 144: self.canvas.figure.clf()
figure_clf ==
    /\ pc = "clf"
    /\ figure' = EmptyFigure
    /\ pc' = "plot"
    /\ UNCHANGED <<eeg_input, result_label, network_info_label, screen, stdout,
                   gif, event, eeg_values, returned, frames, base, returned_base>>

\* create_animation, lines 152-160: both axes are added and the whole
\* signal is plotted on ax1.
plot_signal ==
    /\ pc = "plot"
    /\ figure' = [subplots |-> TRUE, line |-> eeg_values, network |-> "none"]
    /\ pc' = "plot_3d_network"
    /\ UNCHANGED <<eeg_input, result_label, network_info_label, screen, stdout,
                   gif, event, eeg_values, returned, frames, base, returned_base>>

\* create_animation, line 162: plot_3d_network(ax2) draws a random graph of
\* 10 nodes labelled "Node i"; then animate builds the FuncAnimation over
\* frames 1..len(eeg_values) (line 189) and ani.save starts.
plot_3d_network ==
    /\ pc = "plot_3d_network"
    /\ figure' = [figure EXCEPT !.network = "Node"]
    /\ frames' = <<>>
    /\ pc' = "save"
    /\ UNCHANGED <<eeg_input, result_label, network_info_label, screen, stdout,
                   gif, event, eeg_values, returned, base, returned_base>>

\* The frames of the FuncAnimation: np.arange(1, len(eeg_values) + 1).
frame_seq_short(values) == [k \in 1..(Len(values) - 1) |-> k]

frame_seq(values) == [k \in 1..Len(values) |-> k]

\* What update(frame) leaves on the axes: the first `frame` readings on
\* ax1 and a new random graph, labelled "N i", on ax2.
update(values, frame) ==
    [subplots |-> TRUE, line |-> SubSeq(values, 1, Min(frame, Len(values))),
     network |-> "N"]

\* ani.save draws the next frame and hands it to the writer.
save_frame ==
    /\ pc = "save"
    /\ Len(frames) < Len(frame_seq(eeg_values))
    /\ LET frame == frame_seq(eeg_values)[Len(frames) + 1]
       IN  /\ figure' = update(eeg_values, frame)
           /\ frames' = Append(frames, frame)
    /\ UNCHANGED <<eeg_input, result_label, network_info_label, screen, stdout,
                   gif, pc, event, eeg_values, returned, base, returned_base>>

\* ani.save returns after the last frame: the file is written (line 192).
save_done ==
    /\ pc = "save"
    /\ Len(frames) = Len(frame_seq(eeg_values))
    /\ gif' = TRUE
    /\ stdout' = "Animation saved as GIF."
    /\ pc' = "draw"
    /\ UNCHANGED <<eeg_input, result_label, network_info_label, figure, screen,
                   event, eeg_values, returned, frames, base, returned_base>>

\* The handler of a failed export that lets the exception through to the
\* bare except of on_button_click.
export_failed_raise ==
    /\ stdout' = "Could not save animation"
    /\ result_label' = "Invalid EEG input."
    /\ network_info_label' = "Animation failed."
    /\ pc' = "idle"
    /\ UNCHANGED <<figure, screen>>

\* lines 193-194: the exception of ani.save is caught and printed; animate
\* returns normally.
export_failed ==
    /\ stdout' = "Could not save animation"
    /\ pc' = "draw"
    /\ UNCHANGED <<result_label, network_info_label, figure, screen>>

\* ani.save raises: the writer is missing, a frame cannot be grabbed or the
\* file cannot be written.  This can happen before any frame or after any.
save_failed ==
    /\ pc = "save"
    /\ export_failed
    /\ UNCHANGED <<eeg_input, gif, event, eeg_values, returned, frames, base,
                   returned_base>>

\* create_animation, line 165: self.canvas.draw(); the handler returns.
\* The FuncAnimation is local to animate and is not kept, so no frame runs
\* after the export.
canvas_draw ==
    /\ pc = "draw"
    /\ screen' = figure
    /\ pc' = "idle"
    /\ UNCHANGED <<eeg_input, result_label, network_info_label, figure, stdout,
                   gif, event, eeg_values, returned, frames, base, returned_base>>

Next ==
    \/ \E t \in TypedTexts : type_text(t)
    \/ \E file_path \in Paths \cup {""} : load_csv_file(file_path)
    \/ on_button_click
    \/ call_predict_mood
    \/ set_labels
    \/ figure_clf
    \/ plot_signal
    \/ plot_3d_network
    \/ save_frame
    \/ save_done
    \/ save_failed
    \/ canvas_draw

Spec == Init /\ [][Next]_vars

--------------------------------------------------------------------------
(* The classifier alone: predict_mood applied to a drawn sequence and to   *)
(* its rearrangements.                                                     *)

InitClassifier ==
    /\ Init!1 /\ Init!2 /\ Init!3 /\ Init!4 /\ Init!5 /\ Init!6 /\ Init!7
    /\ Init!8 /\ Init!9 /\ Init!12
    /\ base \in Inputs
    /\ eeg_values = base
    /\ returned = NoOutcome
    /\ returned_base = NoOutcome

\* predict_mood(eeg_values) is called and its result kept.
classify ==
    /\ returned = NoOutcome
    /\ returned' = predict_mood(eeg_values)
    /\ returned_base' = IF eeg_values = base THEN returned' ELSE returned_base
    /\ UNCHANGED <<gui, eeg_values, base>>

\* Two neighbouring readings of the sequence change places.
permute(i) ==
    /\ i < Len(eeg_values)
    /\ eeg_values[i] # eeg_values[i + 1]
    /\ eeg_values' = [eeg_values EXCEPT ![i] = eeg_values[i + 1],
                                        ![i + 1] = eeg_values[i]]
    /\ returned' = NoOutcome
    /\ UNCHANGED <<gui, base, returned_base>>

NextClassifier ==
    \/ classify
    \/ \E i \in 1..MaxLen : permute(i)

SpecClassifier == InitClassifier /\ [][NextClassifier]_vars

--------------------------------------------------------------------------
(* Claims about predict_mood (checked under SpecClassifier) *)

\* The integer an integer-valued float stands for.
IntOf(f) == IF f[2] >= 0 THEN f[1] * (2 ^ f[2]) ELSE f[1] \div (2 ^ (-f[2]))

\* Whether float f is exactly the integer k.
FEqualsInt(f, k) ==
    IF f[2] >= 0 THEN f[1] * (2 ^ f[2]) = k ELSE f[1] = k * (2 ^ (-f[2]))

RECURSIVE ExactSum(_)
ExactSum(values) ==
    IF values = <<>> THEN 0 ELSE IntOf(Head(values)) + ExactSum(Tail(values))

C2_PermutationInvariant ==
    (returned # NoOutcome /\ returned_base # NoOutcome) => returned = returned_base

--------------------------------------------------------------------------
(* Claims about the window (checked under Spec) *)

Tokens == split(eeg_input)

\* A token that is empty or holds only whitespace.
Blank(token) == \A i \in 1..Len(token) : token[i] = " "

\* A token that writes no number: it is blank, holds a character that is
\* no digit, sign, point or blank (the model's texts have the letter x),
\* holds no digit, holds two points, holds a sign after its first
\* character, or holds whitespace inside.
NonNumeric(token) ==
    LET t == strip(token)
    IN  \/ Blank(token)
        \/ \E i \in 1..Len(t) : ~IsDigit(t[i]) /\ t[i] \notin {"-", "+", ".", " "}
        \/ \A i \in 1..Len(t) : ~IsDigit(t[i])
        \/ Cardinality({i \in 1..Len(t) : t[i] = "."}) >= 2
        \/ \E i \in 2..Len(t) : t[i] \in {"-", "+"}
        \/ \E i \in 1..Len(t) : t[i] = " "

InHandler == pc # "idle"

LabelsShowOutcome ==
    /\ returned = predict_mood(eeg_values)
    /\ result_label = MoodText(returned[1])
    /\ network_info_label = returned[2]

\* C3: a Predict on a text with a non-numeric token ends with the labels
\* 'Invalid EEG input.' and 'Animation failed.' and shows no mood for that
\* action (the handler never gets past the parse on such a text); the
\* window stays usable, and a Predict on a text that parses shows the
\* classifier's outcome for the parsed readings.
C3_InvalidInput ==
    /\ (pc = "idle" /\ event[1] = "predict") =>
        LET tokens == Tokens
        IN  (\E k \in 1..Len(tokens) : NonNumeric(tokens[k]))
                => (result_label = "Invalid EEG input."
                        /\ network_info_label = "Animation failed.")
    /\ pc = "predict_mood" =>
        LET tokens == Tokens
        IN  \A k \in 1..Len(tokens) : ~NonNumeric(tokens[k])
    /\ pc = "clf" => LabelsShowOutcome

\* After a Predict that ended in 'Invalid EEG input.' the text was
\* corrected and the next Predict has parsed it: the failure labels are
\* still shown and are about to be replaced by the outcome.
C3_Witness ==
    /\ pc = "setText"
    /\ result_label = "Invalid EEG input."
    /\ network_info_label = "Animation failed."

\* C10: predict_mood is never called with an empty sequence: the split of
\* the text entry has at least one piece, a text with an empty or blank
\* piece ends in 'Invalid EEG input.', and the array that reaches the
\* classifier has one reading per piece, so at least one.
C10_NeverEmpty ==
    /\ pc = "idle" =>
        LET tokens == Tokens
        IN  /\ Len(tokens) >= 1
            /\ (event[1] = "predict" /\ \E k \in 1..Len(tokens) : Blank(tokens[k]))
                => result_label = "Invalid EEG input."
    /\ pc = "predict_mood" =>
        LET tokens == Tokens
        IN  /\ Len(eeg_values) >= 1
            /\ Len(eeg_values) = Len(tokens)
            /\ \A k \in 1..Len(tokens) : ~Blank(tokens[k])

\* A Predict on a text with a blank piece (the empty text, a trailing
\* comma, two commas in a row) has ended in 'Invalid EEG input.'.
C10_Witness ==
    /\ pc = "idle"
    /\ event[1] = "predict"
    /\ LET tokens == Tokens IN \E k \in 1..Len(tokens) : Blank(tokens[k])
    /\ result_label = "Invalid EEG input."

\* The last user action was a file load that read its file, the handler
\* has returned, and the text entry is as the load left it.
LoadedOk ==
    /\ pc = "idle"
    /\ event[1] = "load"
    /\ event[2] # ""
    /\ Files[event[2]].readable

\* The columns of df that are not named 'label', by position, in order.
KeptColumns(df) ==
    SelectSeq([c \in 1..Len(df) |-> c], LAMBDA c : df[c].name # "label")

\* The text of cell k (row by row over the kept columns) of a table: an
\* integer as it is when every kept column is int64, as a float otherwise.
CellText(df, kept, k) ==
    LET r == ((k - 1) \div Len(kept)) + 1
        c == kept[((k - 1) % Len(kept)) + 1]
        cell == df[c].cells[r]
    IN  IF \A j \in 1..Len(kept) : df[kept[j]].dtype = "int64" THEN str_int(cell)
        ELSE IF df[c].dtype = "int64" THEN str_float(FInt(cell))
        ELSE str_float(cell)

\* C4: after a successful load the text entry lists the cells of the table
\* without the column named 'label', wherever it sits, row by row, cut to
\* the first 100: exactly 100 pieces when more than 100 cells remain, all
\* the cells in order when 100 or fewer remain (none: the empty text).
C4_LoadedText ==
    LoadedOk =>
        LET df == Files[event[2]].df
            kept == KeptColumns(df)
            cells == IF Len(df) = 0 THEN 0 ELSE Len(df[1].cells) * Len(kept)
            tokens == Tokens
        IN  /\ cells = 0 => eeg_input = <<>>
            /\ cells > 100 => Len(tokens) = 100
            /\ cells \in 1..100 => Len(tokens) = cells
            /\ cells >= 1 =>
                 \A k \in 1..Len(tokens) : strip(tokens[k]) = CellText(df, kept, k)

\* The long table (more than 100 cells beside its 'label' column) has been
\* loaded and the text entry holds 100 pieces.
C4_Witness ==
    /\ LoadedOk
    /\ event[2] = "long"
    /\ Len(Tokens) = 100

\* C5: when the chosen file cannot be read, load_csv_file ends with the
\* result label 'Could not read CSV file.' and the info label the error's
\* text; the text entry, the classifier's last result and the figure are
\* as before, and the handler has returned (the window takes the next
\* action).
C5_LoadFailure ==
    [][(pc = "idle" /\ event'[1] = "load" /\ event'[2] # ""
            /\ ~Files[event'[2]].readable)
        => /\ result_label' = "Could not read CSV file."
           /\ network_info_label' = Files[event'[2]].error
           /\ eeg_input' = eeg_input
           /\ eeg_values' = eeg_values
           /\ returned' = returned
           /\ figure' = figure
           /\ screen' = screen
           /\ frames' = frames
           /\ pc' = "idle"]_vars

\* A load of an unreadable file has ended: both labels report it, and the
\* text loaded before and the figure of an earlier Predict are still there.
C5_Witness ==
    /\ pc = "idle"
    /\ event = <<"load", "ragged">>
    /\ result_label = "Could not read CSV file."
    /\ network_info_label = Files["ragged"].error
    /\ eeg_input # <<>>
    /\ screen.subplots

\* The array the last load flattened and cut: [dtype, data].
Loaded ==
    LET arr == values_flatten(drop_label(Files[event[2]].df))
    IN  [dtype |-> arr.dtype, data |-> first(arr.data, 100)]

\* The parser's readings are the loaded values, one for one.
SameReadings(vals, arr) ==
    /\ Len(vals) = Len(arr.data)
    /\ \A k \in 1..Len(vals) :
          IF arr.dtype = "int64" THEN FEqualsInt(vals[k], arr.data[k])
          ELSE vals[k] = arr.data[k]

\* C9 as stated: for every table of numeric cells the text a successful
\* load writes is accepted by the parser of Predict and parses to the
\* values the load flattened, in order.
C9_RoundTripAnyTable ==
    LoadedOk =>
        LET parsed == parse_floats(eeg_input)
        IN  ~parsed.err /\ SameReadings(parsed.vals, Loaded)

\* C9, amended: the same for every table that leaves at least one cell
\* beside 'label' and whose cells, when they are integers, are integers a
\* float represents exactly; and Predict classifies what the parser read.
C9_RoundTrip ==
    /\ LoadedOk =>
        LET arr == Loaded
            parsed == parse_floats(eeg_input)
        IN  (/\ Len(arr.data) >= 1
             /\ arr.dtype = "int64" =>
                  \A k \in 1..Len(arr.data) : FEqualsInt(FInt(arr.data[k]), arr.data[k]))
            => (~parsed.err /\ SameReadings(parsed.vals, arr))
    /\ pc = "predict_mood" => eeg_values = parse_floats(eeg_input).vals

\* A table of float columns around a 'label' column has been loaded and
\* its text parses.
C9_Witness ==
    /\ LoadedOk
    /\ event[2] = "labelled"
    /\ Len(Loaded.data) = 4
    /\ ~parse_floats(eeg_input).err

C7_ExportFailure ==
    [][/\ (pc = "save" /\ pc' # "save" /\ stdout' = "Could not save animation")
          => /\ pc' = "draw"
             /\ result_label' = MoodText(predict_mood(eeg_values)[1])
             /\ network_info_label' = predict_mood(eeg_values)[2]
             /\ figure' = figure
       /\ pc = "draw"
          => /\ pc' = "idle"
             /\ screen' = figure
             /\ figure.subplots
             /\ result_label' = MoodText(predict_mood(eeg_values)[1])
             /\ network_info_label' = predict_mood(eeg_values)[2]]_vars

\* A Predict whose export failed has ended: the mood is shown, the figure
\* is painted and the window is idle.
C7_Witness ==
    /\ pc = "idle"
    /\ event[1] = "predict"
    /\ stdout = "Could not save animation"
    /\ result_label = "Mood: Happy"
    /\ network_info_label = Happy[2]
    /\ screen = figure
    /\ screen.subplots

\* C8: a Predict acquires, classifies, then renders: the figure changes
\* only inside the handler, first by the clear, after the text entry has
\* parsed to eeg_values and the labels show predict_mood's result for
\* them (text and readings then stay as they are); a Predict that
\* fails to parse leaves the figure as it was; a Load (read, failed or
\* cancelled) classifies nothing and leaves the figure alone, and one that
\* reads its file changes the text entry only.
C8_Order ==
    [][/\ figure' # figure
          => /\ pc \in {"clf", "plot", "plot_3d_network", "save"}
             /\ LabelsShowOutcome
       /\ pc = "clf"
          => /\ figure' = EmptyFigure
             /\ ~parse_floats(eeg_input).err
             /\ eeg_values = parse_floats(eeg_input).vals
       /\ InHandler => (eeg_input' = eeg_input /\ eeg_values' = eeg_values)
       /\ screen' # screen => (pc = "draw" /\ LabelsShowOutcome)
       /\ (pc = "idle" /\ event'[1] = "predict" /\ pc' = "idle")
          => (figure' = figure /\ screen' = screen /\ returned' = returned)
       /\ (pc = "idle" /\ event'[1] = "load")
          => /\ pc' = "idle"
             /\ figure' = figure
             /\ screen' = screen
             /\ returned' = returned
             /\ eeg_values' = eeg_values
             /\ (event'[2] # "" /\ Files[event'[2]].readable)
                  => UNCHANGED <<result_label, network_info_label, stdout, gif, frames>>
             /\ event'[2] = ""
                  => UNCHANGED <<eeg_input, result_label, network_info_label, stdout,
                                 gif, frames>>]_vars

\* A second Predict has parsed its text and set the labels, and has just
\* cleared the figure that the first one painted.
C8_Witness ==
    /\ pc = "plot"
    /\ figure = EmptyFigure
    /\ screen.subplots
    /\ LabelsShowOutcome

==========================================================================
